---- MODULE Spec2Model ----
(***************************************************************************)
(* pyhaproxy: Parser (src/pyhaproxy/parse.py).                             *)
(*                                                                         *)
(* The parser reads a haproxy configuration file, has pegnode.parse turn   *)
(* it into a tree of section nodes, and walks that tree once, building one *)
(* config object per section.  The state machine below follows one Parser  *)
(* from its construction to the return (or the raise) of                   *)
(* build_configuration.                                                    *)
(*                                                                         *)
(* Texts.  Most texts of the tree (names, keywords, hosts, ports) are only *)
(* copied by the parser and are TLA+ strings.  The texts the parser splits *)
(* (the value of a server or bind line, the groups/users fragment of a     *)
(* user or group line) are sequences of one-character strings.             *)
(***************************************************************************)
EXTENDS Naturals, Sequences, FiniteSets, TLC

VARIABLES
    file,           \* the file at filepath: does it exist, and its content
    pc,             \* where the caller of the Parser is
    filestring,     \* Parser.filestring
    pegtree,        \* Parser.pegtree
    i,              \* position of the for loop of build_configuration (1-based)
    configuration,  \* the local `configuration` of build_configuration
    returned,       \* what build_configuration returned to its caller
    exception       \* the exception that reached the caller

vars == <<file, pc, filestring, pegtree, i, configuration, returned, exception>>

(***************************************************************************)
(* Bounds of the input families.                                           *)
(***************************************************************************)
MaxSections == 3    \* sections of a file, in the files of many small sections
MaxLines == 3       \* lines of the body, in the files of one section
MaxLen == 3         \* characters of a value text, in the files of one line

(***************************************************************************)
(* Python values.                                                          *)
(***************************************************************************)
NoneVal == [type |-> "None"]

Range(s) == {s[k] : k \in 1..Len(s)}

(***************************************************************************)
(* str.split(sep) with a separator: cut at every occurrence of sep, found  *)
(* left to right and not overlapping; the pieces may be empty, and a text  *)
(* without sep (the empty text too) gives the one-element list [text].     *)
(***************************************************************************)
OccursAt(text, sep, k) ==
    /\ k + Len(sep) - 1 <= Len(text)
    /\ SubSeq(text, k, k + Len(sep) - 1) = sep

RECURSIVE split_rec(_, _)
split_rec(text, sep) ==
    LET hits == {k \in 1..Len(text) : OccursAt(text, sep, k)}
    IN  IF hits = {} THEN <<text>>
        ELSE LET k == CHOOSE h \in hits : \A g \in hits : h <= g
             IN  <<SubSeq(text, 1, k - 1)>>
                 \o split_rec(SubSeq(text, k + Len(sep), Len(text)), sep)

\* a slip: cut at every character of sep, as re.split('[ \t]', text) would
RECURSIVE split_each(_, _)
split_each(text, sep) ==
    LET hits == {k \in 1..Len(text) : text[k] \in Range(sep)}
    IN  IF hits = {} THEN <<text>>
        ELSE LET k == CHOOSE h \in hits : \A g \in hits : h <= g
             IN  <<SubSeq(text, 1, k - 1)>>
                 \o split_each(SubSeq(text, k + 1, Len(text)), sep)

split(text, sep) == split_rec(text, sep)

(***************************************************************************)
(* The parse tree, as parse.py reads it: a tree is a sequence of section   *)
(* nodes; a section node has a header (proxy_name, service_address) and a  *)
(* config_block, a sequence of line nodes.  `type` is the node's class,    *)
(* what isinstance looks at.                                               *)
(***************************************************************************)
ServiceAddress(h, p) == [type |-> "ServiceAddress", host |-> h, port |-> p]

\* an optional grammar fragment that matched nothing: a node of no special class
EmptyNode == [type |-> "TreeNode"]

ConfigLine(k, v) == [type |-> "ConfigLine", keyword |-> k, value |-> v]

OptionLine(k, v) == [type |-> "OptionLine", keyword |-> k, value |-> v]

ServerLine(n, a, v) ==
    [type |-> "ServerLine", server_name |-> n, service_address |-> a, value |-> v]

BindLine(a, v) == [type |-> "BindLine", service_address |-> a, value |-> v]

AclLine(n, v) == [type |-> "AclLine", acl_name |-> n, value |-> v]

BackendLine(t, n, op, cond) ==
    [type |-> "BackendLine", backendtype |-> t, backend_name |-> n,
     operator |-> op, backend_condition |-> cond]

UserLine(n, t, pw, g) ==
    [type |-> "UserLine", user_name |-> n, passwd_type |-> t, password |-> pw,
     groups_fragment |-> g]

GroupLine(n, u) == [type |-> "GroupLine", group_name |-> n, users_fragment |-> u]

BlankLine == [type |-> "BlankLine"]

CommentLine == [type |-> "CommentLine"]

\* header stands for global_header, defaults_header, frontend_header, ...
Section(kind, name, addr, lines) ==
    [type |-> kind,
     header |-> [proxy_name |-> name, service_address |-> addr],
     config_block |-> lines]

SectionKinds ==
    {"GlobalSection", "FrontendSection", "DefaultsSection", "ListenSection",
     "UserlistSection", "BackendSection"}

(***************************************************************************)
(* The entities of a config block (parse.py 226-274).                      *)
(***************************************************************************)
SpaceTab == <<" ", "\t">>

Comma == <<",">>

build_server(server_node) ==
    [type |-> "Server",
     name |-> server_node.server_name,
     host |-> server_node.service_address.host,
     port |-> server_node.service_address.port,
     attributes |-> split(server_node.value, SpaceTab)]

build_bind(bind_node) ==
    [type |-> "Bind",
     host |-> bind_node.service_address.host,
     port |-> bind_node.service_address.port,
     attributes |-> split(bind_node.value, SpaceTab)]

build_acl(acl_node) ==
    [type |-> "Acl", name |-> acl_node.acl_name, value |-> acl_node.value]

build_usebackend(usebackend_node) ==
    [type |-> "UseBackend",
     backend_name |-> usebackend_node.backend_name,
     operator |-> usebackend_node.operator,
     backend_condition |-> usebackend_node.backend_condition,
     is_default |-> (usebackend_node.backendtype = "default_backend")]

build_user(user_node) ==
    [type |-> "User",
     name |-> user_node.user_name,
     passwd |-> user_node.password,
     passwd_type |-> user_node.passwd_type,
     group_names |-> IF user_node.groups_fragment # <<>>
                     THEN split(user_node.groups_fragment, Comma) ELSE <<>>]

build_group(group_node) ==
    [type |-> "Group",
     name |-> group_node.group_name,
     user_names |-> IF group_node.users_fragment # <<>>
                    THEN split(group_node.users_fragment, Comma) ELSE <<>>]

(***************************************************************************)
(* The config block: a defaultdict(list).  It is a function whose domain   *)
(* is the set of keys that were touched; reading a key gives its list, or  *)
(* the empty list for a key never touched.                                 *)
(***************************************************************************)
BlockKeys ==
    {"configs", "options", "servers", "binds", "acls", "usebackends", "users",
     "groups"}

EmptyBlock == [k \in {} |-> <<>>]

Get(d, key) == IF key \in DOMAIN d THEN d[key] ELSE <<>>

\* d[key].append(x)
AppendTo(d, key, x) ==
    [k \in DOMAIN d \cup {key} |-> IF k = key THEN Append(Get(d, key), x) ELSE d[k]]

\* a slip: the option lines appended to configs
build_config_block_line_options_in_configs(d, line_node) ==
    CASE line_node.type \in {"ConfigLine", "OptionLine"} ->
            AppendTo(d, "configs", <<line_node.keyword, line_node.value>>)
      [] line_node.type = "ServerLine" ->
            AppendTo(d, "servers", build_server(line_node))
      [] line_node.type = "BindLine" ->
            AppendTo(d, "binds", build_bind(line_node))
      [] line_node.type = "AclLine" ->
            AppendTo(d, "acls", build_acl(line_node))
      [] line_node.type = "BackendLine" ->
            AppendTo(d, "usebackends", build_usebackend(line_node))
      [] line_node.type = "UserLine" ->
            AppendTo(d, "users", build_user(line_node))
      [] line_node.type = "GroupLine" ->
            AppendTo(d, "groups", build_group(line_node))
      [] OTHER -> d

\* a slip: the last branch appends instead of passing, so that blank and comment
\* lines reach configs as pairs of empty texts
build_config_block_line_blank_kept(d, line_node) ==
    CASE line_node.type = "ConfigLine" ->
            AppendTo(d, "configs", <<line_node.keyword, line_node.value>>)
      [] line_node.type = "OptionLine" ->
            AppendTo(d, "options", <<line_node.keyword, line_node.value>>)
      [] line_node.type = "ServerLine" ->
            AppendTo(d, "servers", build_server(line_node))
      [] line_node.type = "BindLine" ->
            AppendTo(d, "binds", build_bind(line_node))
      [] line_node.type = "AclLine" ->
            AppendTo(d, "acls", build_acl(line_node))
      [] line_node.type = "BackendLine" ->
            AppendTo(d, "usebackends", build_usebackend(line_node))
      [] line_node.type = "UserLine" ->
            AppendTo(d, "users", build_user(line_node))
      [] line_node.type = "GroupLine" ->
            AppendTo(d, "groups", build_group(line_node))
      [] OTHER -> AppendTo(d, "configs", <<"", "">>)

\* one turn of the loop of __build_config_block
build_config_block_line(d, line_node) ==
    CASE line_node.type = "ConfigLine" ->
            AppendTo(d, "configs", <<line_node.keyword, line_node.value>>)
      [] line_node.type = "OptionLine" ->
            AppendTo(d, "options", <<line_node.keyword, line_node.value>>)
      [] line_node.type = "ServerLine" ->
            AppendTo(d, "servers", build_server(line_node))
      [] line_node.type = "BindLine" ->
            AppendTo(d, "binds", build_bind(line_node))
      [] line_node.type = "AclLine" ->
            AppendTo(d, "acls", build_acl(line_node))
      [] line_node.type = "BackendLine" ->
            AppendTo(d, "usebackends", build_usebackend(line_node))
      [] line_node.type = "UserLine" ->
            AppendTo(d, "users", build_user(line_node))
      [] line_node.type = "GroupLine" ->
            AppendTo(d, "groups", build_group(line_node))
      [] OTHER -> d

RECURSIVE build_config_block_from(_, _, _)
build_config_block_from(d, config_block_node, k) ==
    IF k > Len(config_block_node) THEN d
    ELSE build_config_block_from(
             build_config_block_line(d, config_block_node[k]), config_block_node, k + 1)

build_config_block(config_block_node) ==
    build_config_block_from(EmptyBlock, config_block_node, 1)

(***************************************************************************)
(* The section builders.  A builder gives [raised |-> FALSE, value |-> the *)
(* object] or [raised |-> TRUE, message |-> the words of the exception].   *)
(***************************************************************************)
Built(obj) == [raised |-> FALSE, value |-> obj]

Raised(msg) == [raised |-> TRUE, message |-> msg]

build_global(global_node) ==
    Built([type |-> "Global",
           config_block |-> build_config_block(global_node.config_block)])

build_defaults(defaults_node) ==
    Built([type |-> "Defaults", name |-> defaults_node.header.proxy_name,
           config_block |-> build_config_block(defaults_node.config_block)])

build_userlist(userlist_node) ==
    Built([type |-> "Userlist", name |-> userlist_node.header.proxy_name,
           config_block |-> build_config_block(userlist_node.config_block)])

build_backend(backend_node) ==
    Built([type |-> "Backend", name |-> backend_node.header.proxy_name,
           config_block |-> build_config_block(backend_node.config_block)])

\* the words of the messages (the backquotes around the section keyword left out)
ListenMessage ==
    <<"Not", "specify", "host", "and", "port", "in", "listen", "definition">>

FrontendMessage ==
    <<"Not", "specify", "host", "and", "port", "in", "frontend", "definition">>

\* a slip: the binds looked at first, the header address only without binds
build_listen_bind_first(listen_node) ==
    LET config_block_dict == build_config_block(listen_node.config_block)
        binds == Get(config_block_dict, "binds")
    IN  IF Len(binds) > 0
        THEN Built([type |-> "Listen", name |-> listen_node.header.proxy_name,
                    host |-> binds[1].host, port |-> binds[1].port,
                    config_block |-> config_block_dict])
        ELSE IF listen_node.header.service_address.type = "ServiceAddress"
        THEN Built([type |-> "Listen", name |-> listen_node.header.proxy_name,
                    host |-> listen_node.header.service_address.host,
                    port |-> listen_node.header.service_address.port,
                    config_block |-> config_block_dict])
        ELSE Raised(ListenMessage)

build_listen(listen_node) ==
    LET config_block_dict == build_config_block(listen_node.config_block)
        binds == Get(config_block_dict, "binds")
    IN  IF listen_node.header.service_address.type = "ServiceAddress"
        THEN Built([type |-> "Listen", name |-> listen_node.header.proxy_name,
                    host |-> listen_node.header.service_address.host,
                    port |-> listen_node.header.service_address.port,
                    config_block |-> config_block_dict])
        ELSE IF Len(binds) > 0
        THEN Built([type |-> "Listen", name |-> listen_node.header.proxy_name,
                    host |-> binds[1].host, port |-> binds[1].port,
                    config_block |-> config_block_dict])
        ELSE Raised(ListenMessage)

\* a slip: the loop over the binds without its break, so that the last bind wins
build_frontend_last_bind(frontend_node) ==
    LET config_block_dict == build_config_block(frontend_node.config_block)
        binds == Get(config_block_dict, "binds")
    IN  IF frontend_node.header.service_address.type = "ServiceAddress"
        THEN Built([type |-> "Frontend", name |-> frontend_node.header.proxy_name,
                    host |-> frontend_node.header.service_address.host,
                    port |-> frontend_node.header.service_address.port,
                    config_block |-> config_block_dict])
        ELSE IF Len(binds) > 0
        THEN Built([type |-> "Frontend", name |-> frontend_node.header.proxy_name,
                    host |-> binds[Len(binds)].host, port |-> binds[Len(binds)].port,
                    config_block |-> config_block_dict])
        ELSE Raised(FrontendMessage)

build_frontend(frontend_node) ==
    LET config_block_dict == build_config_block(frontend_node.config_block)
        binds == Get(config_block_dict, "binds")
    IN  IF frontend_node.header.service_address.type = "ServiceAddress"
        THEN Built([type |-> "Frontend", name |-> frontend_node.header.proxy_name,
                    host |-> frontend_node.header.service_address.host,
                    port |-> frontend_node.header.service_address.port,
                    config_block |-> config_block_dict])
        ELSE IF Len(binds) > 0
        THEN Built([type |-> "Frontend", name |-> frontend_node.header.proxy_name,
                    host |-> binds[1].host, port |-> binds[1].port,
                    config_block |-> config_block_dict])
        ELSE Raised(FrontendMessage)

(***************************************************************************)
(* config.Configuration, and the two things the Parser gets from outside:  *)
(* the text of the file and the tree pegnode.parse makes of it.  A text is *)
(* given by the sections and lines written in it; the empty text is the    *)
(* text without any section.                                               *)
(***************************************************************************)
Configuration ==
    [globall |-> NoneVal, defaults |-> <<>>, frontends |-> <<>>, listens |-> <<>>,
     userlists |-> <<>>, backends |-> <<>>]

EmptyText == <<>>

pegnode_parse(text) == [type |-> "Tree", elements |-> text]

read_string_from_file(f) == IF f.exists THEN f.content ELSE EmptyText

InitErrorMessage(path) == <<"error", "reading", "from", "file", path>>

(***************************************************************************)
(* The files the Parser is run on: three bounded families.                 *)
(***************************************************************************)
HeaderAddress == ServiceAddress("0.0.0.0", "80")

Bind8080 == BindLine(ServiceAddress("127.0.0.1", "8080"), <<>>)

Bind9090 == BindLine(ServiceAddress("127.0.0.1", "9090"), <<"s", "s", "l">>)

Maxconn1024 == ConfigLine("maxconn", "1024")

Maxconn2048 == ConfigLine("maxconn", "2048")

\* the sections of the given kinds, with and without a header address where the
\* grammar has one, over the given bodies
SectionsOver(kinds, bodies) ==
    {Section(k, IF k = "GlobalSection" THEN "" ELSE "web", EmptyNode, b) :
        k \in kinds, b \in bodies}
    \cup
    {Section(k, "web", HeaderAddress, b) :
        k \in kinds \cap {"FrontendSection", "ListenSection"}, b \in bodies}

\* (a) up to MaxSections sections of one line each
ManySections(n) ==
    [1..n -> SectionsOver(SectionKinds, {<<Maxconn1024>>, <<Bind8080>>})]

\* (b) one section of up to MaxLines lines of every kind
BlockLines ==
    {Maxconn1024, Maxconn2048,
     OptionLine("httplog", ""),
     ServerLine("s1", ServiceAddress("10.0.0.1", "80"), <<"c", " ", "\t", "w">>),
     Bind8080, Bind9090,
     AclLine("is_api", "path_beg /api"),
     BackendLine("use_backend", "api", "if", "is_api"),
     UserLine("alice", "password", "x1", <<"G", ",", "H">>),
     GroupLine("G", <<>>),
     BlankLine, CommentLine}

OneSection(body) == {<<s>> : s \in SectionsOver(SectionKinds, {body})}

\* (c) one section of one server or bind line, over the value texts of up to
\* MaxLen characters
Chars == {"a", " ", "\t"}

OneLine(v) ==
    {<<Section("BackendSection", "web", EmptyNode,
               <<ServerLine("s1", ServiceAddress("10.0.0.1", "80"), v)>>)>>}
    \cup
    {<<Section(k, "web", EmptyNode,
               <<BindLine(ServiceAddress("127.0.0.1", "8080"), v)>>)>> :
        k \in {"FrontendSection", "ListenSection"}}

FileOf(c) == [path |-> "haproxy.cfg", exists |-> TRUE, content |-> c]

NoFile == [path |-> "haproxy.cfg", exists |-> FALSE, content |-> EmptyText]

InputFile(f) ==
    \/ f = NoFile
    \/ \E n \in 0..MaxSections : \E c \in ManySections(n) : f = FileOf(c)
    \/ \E n \in 0..MaxLines : \E body \in [1..n -> BlockLines] :
          \E c \in OneSection(body) : f = FileOf(c)
    \/ \E n \in 0..MaxLen : \E v \in [1..n -> Chars] :
          \E c \in OneLine(v) : f = FileOf(c)

(***************************************************************************)
(* The state machine.                                                      *)
(***************************************************************************)
Init ==
    /\ InputFile(file)
    /\ pc = "new"
    /\ filestring = EmptyText
    /\ pegtree = NoneVal
    /\ i = 0
    /\ configuration = NoneVal
    /\ returned = NoneVal
    /\ exception = NoneVal

\* a slip: the constructor without its test of the text read
ParserInitUnchecked ==
    /\ pc = "new"
    /\ filestring' = read_string_from_file(file)
    /\ pc' = "constructed"
    /\ UNCHANGED <<file, pegtree, i, configuration, returned, exception>>

\* Parser(filepath)
ParserInit ==
    /\ pc = "new"
    /\ filestring' = read_string_from_file(file)
    /\ IF filestring' = EmptyText
       THEN /\ pc' = "init_raised"
            /\ exception' = [type |-> "Exception",
                             message |-> InitErrorMessage(file.path)]
       ELSE /\ pc' = "constructed"
            /\ UNCHANGED exception
    /\ UNCHANGED <<file, pegtree, i, configuration, returned>>

\* build_configuration, up to the loop
BuildConfigurationEnter ==
    /\ pc = "constructed"
    /\ pegtree' = pegnode_parse(filestring)
    /\ configuration' = Configuration
    /\ i' = 1
    /\ pc' = "loop"
    /\ UNCHANGED <<file, filestring, returned, exception>>

InLoop(kind) ==
    /\ pc = "loop"
    /\ i <= Len(pegtree.elements)
    /\ pegtree.elements[i].type = kind

\* the result r of a builder reaches the loop: the object is put where the branch
\* says (c is the configuration with the object in it), an exception leaves
\* build_configuration
Continue(r, c) ==
    /\ IF r.raised
       THEN /\ pc' = "raised"
            /\ exception' = [type |-> "Exception", message |-> r.message]
            /\ UNCHANGED <<i, configuration>>
       ELSE /\ configuration' = c
            /\ i' = i + 1
            /\ UNCHANGED <<pc, exception>>
    /\ UNCHANGED <<file, filestring, pegtree, returned>>

\* a slip: the global slot filled only while it is empty, so that the first wins
BuildGlobalKeepFirst ==
    /\ InLoop("GlobalSection")
    /\ LET r == build_global(pegtree.elements[i])
       IN  Continue(r, IF configuration.globall = NoneVal
                       THEN [configuration EXCEPT !.globall = r.value]
                       ELSE configuration)

BuildGlobal ==
    /\ InLoop("GlobalSection")
    /\ LET r == build_global(pegtree.elements[i])
       IN  Continue(r, [configuration EXCEPT !.globall = r.value])

\* a slip: the exception of the builder caught and the section skipped
BuildFrontendSkipOnError ==
    /\ InLoop("FrontendSection")
    /\ LET r == build_frontend(pegtree.elements[i])
       IN  configuration' = IF r.raised THEN configuration
                            ELSE [configuration EXCEPT !.frontends = Append(@, r.value)]
    /\ i' = i + 1
    /\ UNCHANGED <<file, pc, filestring, pegtree, returned, exception>>

BuildFrontend ==
    /\ InLoop("FrontendSection")
    /\ LET r == build_frontend(pegtree.elements[i])
       IN  Continue(r, [configuration EXCEPT !.frontends = Append(@, r.value)])

BuildDefaults ==
    /\ InLoop("DefaultsSection")
    /\ LET r == build_defaults(pegtree.elements[i])
       IN  Continue(r, [configuration EXCEPT !.defaults = Append(@, r.value)])

\* a slip: the listen sections appended to frontends
BuildListenIntoFrontends ==
    /\ InLoop("ListenSection")
    /\ LET r == build_listen(pegtree.elements[i])
       IN  Continue(r, [configuration EXCEPT !.frontends = Append(@, r.value)])

BuildListen ==
    /\ InLoop("ListenSection")
    /\ LET r == build_listen(pegtree.elements[i])
       IN  Continue(r, [configuration EXCEPT !.listens = Append(@, r.value)])

BuildUserlist ==
    /\ InLoop("UserlistSection")
    /\ LET r == build_userlist(pegtree.elements[i])
       IN  Continue(r, [configuration EXCEPT !.userlists = Append(@, r.value)])

BuildBackend ==
    /\ InLoop("BackendSection")
    /\ LET r == build_backend(pegtree.elements[i])
       IN  Continue(r, [configuration EXCEPT !.backends = Append(@, r.value)])

\* return configuration
Return ==
    /\ pc = "loop"
    /\ i > Len(pegtree.elements)
    /\ returned' = configuration
    /\ pc' = "done"
    /\ UNCHANGED <<file, filestring, pegtree, i, configuration, exception>>

Next ==
    \/ ParserInit
    \/ BuildConfigurationEnter
    \/ BuildGlobal
    \/ BuildFrontend
    \/ BuildDefaults
    \/ BuildListen
    \/ BuildUserlist
    \/ BuildBackend
    \/ Return

Spec == Init /\ [][Next]_vars

(***************************************************************************)
(* What the properties speak of: the sections read so far, and the object  *)
(* built for each of them.                                                 *)
(***************************************************************************)
Started == pc \in {"loop", "raised", "done"}

Tree == pegtree.elements

\* the sections the loop is through with (the one that raised is not among them)
Processed == SubSeq(Tree, 1, i - 1)

OfKind(secs, kind) == LET Test(s) == s.type = kind IN SelectSeq(secs, Test)

LinesOf(body, kind) == LET Test(l) == l.type = kind IN SelectSeq(body, Test)

ListKinds ==
    {"FrontendSection", "DefaultsSection", "ListenSection", "UserlistSection",
     "BackendSection"}

Slot(c, kind) ==
    CASE kind = "FrontendSection" -> c.frontends
      [] kind = "DefaultsSection" -> c.defaults
      [] kind = "ListenSection" -> c.listens
      [] kind = "UserlistSection" -> c.userlists
      [] kind = "BackendSection" -> c.backends

Min(a, b) == IF a <= b THEN a ELSE b

\* <<section, object>>: the j-th object of a sequence with the j-th section of
\* its kind, and the object of the global slot with the last Global section
BuiltPairs ==
    IF ~Started THEN {}
    ELSE {<<OfKind(Processed, k)[j], Slot(configuration, k)[j]>> :
             <<k, j>> \in {<<k, j>> \in ListKinds \X (1..Len(Tree)) :
                  j <= Min(Len(OfKind(Processed, k)), Len(Slot(configuration, k)))}}
         \cup (IF configuration.globall # NoneVal
                  /\ OfKind(Processed, "GlobalSection") # <<>>
               THEN LET gs == OfKind(Processed, "GlobalSection")
                    IN  {<<gs[Len(gs)], configuration.globall>>}
               ELSE {})

HasHeaderAddress(s) == s.header.service_address.type = "ServiceAddress"

AddressPairs == {p \in BuiltPairs : p[1].type \in {"FrontendSection", "ListenSection"}}

\* C1: a Frontend or Listen section whose header carries an address is built with
\* exactly the host and port of the header, whatever bind lines its body has.
C1_HeaderAddressVerbatim ==
    \A p \in AddressPairs :
        HasHeaderAddress(p[1]) =>
            /\ p[2].host = p[1].header.service_address.host
            /\ p[2].port = p[1].header.service_address.port

W1_HeaderAddressOverBinds ==
    /\ pc = "done"
    /\ \E p \in AddressPairs :
          /\ p[1].type = "FrontendSection"
          /\ HasHeaderAddress(p[1])
          /\ Len(LinesOf(p[1].config_block, "BindLine")) >= 2
          /\ p[2].host = "0.0.0.0" /\ p[2].port = "80"

\* C2: a Frontend or Listen section without header address and with at least one
\* bind line is built with the host and port of its first bind line; the later
\* bind lines do not count.
C2_FirstBindWins ==
    \A p \in AddressPairs :
        LET bindlines == LinesOf(p[1].config_block, "BindLine")
        IN  (~HasHeaderAddress(p[1]) /\ bindlines # <<>>) =>
                /\ p[2].host = bindlines[1].service_address.host
                /\ p[2].port = bindlines[1].service_address.port

W2_TwoBinds ==
    /\ pc = "done"
    /\ \E p \in AddressPairs :
          /\ ~HasHeaderAddress(p[1])
          /\ LinesOf(p[1].config_block, "BindLine") = <<Bind8080, Bind9090>>
          /\ p[2].host = "127.0.0.1" /\ p[2].port = "8080"

\* C3: when a Frontend or Listen section has neither a header address nor a bind
\* line, building fails with an error that names the section by its name, and no
\* object is constructed for the section.
C3_MissingAddressNamesSection ==
    pc = "raised" =>
        /\ Tree[i].header.proxy_name \in Range(exception.message)
        /\ \A k \in ListKinds :
              Len(Slot(configuration, k)) = Len(OfKind(Processed, k))

PairsOf(lines) == [k \in 1..Len(lines) |-> <<lines[k].keyword, lines[k].value>>]

\* C4: in every built section, configs is the sequence of the (keyword, value)
\* pairs of the section's generic-config lines and options that of its option
\* lines, in the order and number of the source: nothing is deduplicated,
\* reordered, dropped or moved from one sequence to the other.
C4_ConfigsOptionsOrder ==
    \A p \in BuiltPairs :
        /\ Get(p[2].config_block, "configs") = PairsOf(LinesOf(p[1].config_block, "ConfigLine"))
        /\ Get(p[2].config_block, "options") = PairsOf(LinesOf(p[1].config_block, "OptionLine"))

W4_TwoMaxconn ==
    /\ pc = "done"
    /\ \E p \in BuiltPairs :
          /\ p[1].type = "GlobalSection"
          /\ p[1].config_block = <<Maxconn1024, OptionLine("httplog", ""), Maxconn2048>>
          /\ Get(p[2].config_block, "configs") = <<<<"maxconn", "1024">>, <<"maxconn", "2048">>>>
          /\ Get(p[2].config_block, "options") = <<<<"httplog", "">>>>

\* C5: the global slot is the object built from the last Global section read, and
\* from that section only; sections of other kinds leave it alone.  So after the
\* assembly of a tree with Global sections, the returned Configuration has the
\* object of the last one.
C5_LastGlobalWins ==
    /\ Started =>
          LET gs == OfKind(Processed, "GlobalSection")
          IN  configuration.globall =
                  IF gs = <<>> THEN NoneVal ELSE build_global(gs[Len(gs)]).value
    /\ pc = "done" =>
          LET gs == OfKind(Tree, "GlobalSection")
          IN  gs # <<>> =>
                 /\ returned.globall.type = "Global"
                 /\ returned.globall.config_block = build_config_block(gs[Len(gs)].config_block)

W5_TwoGlobalsThenOther ==
    /\ pc = "done"
    /\ Len(Tree) = 3
    /\ Tree[1].type = "GlobalSection" /\ Tree[1].config_block = <<Maxconn1024>>
    /\ Tree[2].type = "GlobalSection" /\ Tree[2].config_block = <<Bind8080>>
    /\ Tree[3].type = "BackendSection"
    /\ Get(returned.globall.config_block, "configs") = <<>>

BuilderOf(kind, s) ==
    CASE kind = "FrontendSection" -> build_frontend(s)
      [] kind = "DefaultsSection" -> build_defaults(s)
      [] kind = "ListenSection" -> build_listen(s)
      [] kind = "UserlistSection" -> build_userlist(s)
      [] kind = "BackendSection" -> build_backend(s)

ObjectType(kind) ==
    CASE kind = "FrontendSection" -> "Frontend"
      [] kind = "DefaultsSection" -> "Defaults"
      [] kind = "ListenSection" -> "Listen"
      [] kind = "UserlistSection" -> "Userlist"
      [] kind = "BackendSection" -> "Backend"

RECURSIVE SumLen(_, _)
SumLen(c, kinds) ==
    IF kinds = {} THEN 0
    ELSE LET k == CHOOSE x \in kinds : TRUE
         IN  Len(Slot(c, k)) + SumLen(c, kinds \ {k})

\* C6: in the returned Configuration each of defaults, frontends, listens,
\* userlists and backends holds one object for each section of its kind, in the
\* order of the sections in the tree, and none for a section of another kind; the
\* five lengths add up to the number of sections that are not Global.
C6_OnePerSectionInOrder ==
    pc = "done" =>
        /\ \A k \in ListKinds :
              LET secs == OfKind(Tree, k)
                  objs == Slot(returned, k)
              IN  /\ Len(objs) = Len(secs)
                  /\ \A j \in 1..Len(objs) :
                        /\ objs[j].type = ObjectType(k)
                        /\ objs[j] = BuilderOf(k, secs[j]).value
        /\ SumLen(returned, ListKinds)
              = Len(Tree) - Len(OfKind(Tree, "GlobalSection"))

W6_ThreeSections ==
    /\ pc = "done"
    /\ Len(Tree) = 3
    /\ Tree[1].type = "BackendSection" /\ Tree[1].config_block = <<Bind8080>>
    /\ Tree[2].type = "ListenSection"
    /\ Tree[3].type = "BackendSection" /\ Tree[3].config_block = <<Maxconn1024>>
    /\ Len(returned.backends) = 2 /\ Len(returned.listens) = 1

\* a section the builders can build: Frontend and Listen need an address
Buildable(s) ==
    s.type \in {"FrontendSection", "ListenSection"} =>
        \/ HasHeaderAddress(s)
        \/ \E k \in 1..Len(s.config_block) : s.config_block[k].type = "BindLine"

\* C7: an error in the building of a section ends build_configuration without a
\* Configuration, whatever was built before; a Configuration is returned only
\* when every section of the tree was built.
C7_ErrorAbortsParse ==
    /\ pc = "raised" => returned = NoneVal /\ exception # NoneVal
    /\ (Started /\ \E k \in 1..Len(Tree) : ~Buildable(Tree[k])) => returned = NoneVal
    /\ returned # NoneVal =>
          /\ pc = "done"
          /\ \A k \in 1..Len(Tree) : Buildable(Tree[k])
          /\ i = Len(Tree) + 1

W7_FailsAfterTwoBuilt ==
    /\ pc = "raised"
    /\ i = 3
    /\ Len(configuration.backends) + Len(configuration.frontends) = 2
    /\ returned = NoneVal

\* C8: an empty input (a file that is empty, or that does not exist) is rejected
\* with an error by the construction of the Parser, before any recognition or
\* building; it never gives a Configuration.
C8_EmptyInputRejected ==
    read_string_from_file(file) = EmptyText =>
        /\ pc \in {"new", "init_raised"}
        /\ pegtree = NoneVal
        /\ configuration = NoneVal
        /\ returned = NoneVal
        /\ pc = "init_raised" => exception # NoneVal

W8_EmptyFileRaised ==
    /\ pc = "init_raised"
    /\ file.exists
    /\ file.content = EmptyText
    /\ exception.message = InitErrorMessage("haproxy.cfg")

LineKindOf(key) ==
    CASE key = "configs" -> "ConfigLine"
      [] key = "options" -> "OptionLine"
      [] key = "servers" -> "ServerLine"
      [] key = "binds" -> "BindLine"
      [] key = "acls" -> "AclLine"
      [] key = "usebackends" -> "BackendLine"
      [] key = "users" -> "UserLine"
      [] key = "groups" -> "GroupLine"

EntityOf(key, line) ==
    CASE key = "configs" -> <<line.keyword, line.value>>
      [] key = "options" -> <<line.keyword, line.value>>
      [] key = "servers" -> build_server(line)
      [] key = "binds" -> build_bind(line)
      [] key = "acls" -> build_acl(line)
      [] key = "usebackends" -> build_usebackend(line)
      [] key = "users" -> build_user(line)
      [] key = "groups" -> build_group(line)

RECURSIVE TotalLen(_, _)
TotalLen(d, keys) ==
    IF keys = {} THEN 0
    ELSE LET k == CHOOSE x \in keys : TRUE
         IN  Len(Get(d, k)) + TotalLen(d, keys \ {k})

Payload(body) ==
    LET Test(l) == l.type \notin {"BlankLine", "CommentLine"} IN SelectSeq(body, Test)

\* C9: each line of a body goes to the one sequence of its kind, in line order;
\* blank and comment lines go nowhere.  So the lengths of the sequences add up to
\* the number of lines that are neither blank nor comment, no other key exists,
\* and a sequence no line went to reads as the empty sequence.
C9_OneSequencePerLine ==
    \A p \in BuiltPairs :
        LET d == p[2].config_block
            body == p[1].config_block
        IN  /\ DOMAIN d \subseteq BlockKeys
            /\ \A key \in BlockKeys :
                  LET lines == LinesOf(body, LineKindOf(key))
                  IN  /\ Get(d, key) = [k \in 1..Len(lines) |-> EntityOf(key, lines[k])]
                      /\ lines = <<>> => Get(d, key) = <<>>
            /\ TotalLen(d, BlockKeys) = Len(Payload(body))

W9_MixedBody ==
    /\ pc = "done"
    /\ \E p \in BuiltPairs :
          /\ Len(p[1].config_block) = 3
          /\ p[1].config_block[1].type = "UserLine"
          /\ p[1].config_block[2].type = "CommentLine"
          /\ p[1].config_block[3].type = "GroupLine"
          /\ DOMAIN p[2].config_block = {"users", "groups"}
          /\ Get(p[2].config_block, "servers") = <<>>
          /\ TotalLen(p[2].config_block, BlockKeys) = 2

RECURSIVE Join(_, _)
Join(pieces, sep) ==
    IF Len(pieces) = 1 THEN pieces[1]
    ELSE pieces[1] \o sep \o Join(Tail(pieces), sep)

HasSpaceTab(text) == \E k \in 1..Len(text) : OccursAt(text, SpaceTab, k)

\* <<line, entity>>: the j-th Server (Bind) of a built section with its j-th
\* server (bind) line
AttributePairs ==
    UNION {LET d == p[2].config_block
               body == p[1].config_block
           IN  {<<LinesOf(body, "ServerLine")[j], Get(d, "servers")[j]>> :
                    j \in 1..Min(Len(LinesOf(body, "ServerLine")), Len(Get(d, "servers")))}
               \cup
               {<<LinesOf(body, "BindLine")[j], Get(d, "binds")[j]>> :
                    j \in 1..Min(Len(LinesOf(body, "BindLine")), Len(Get(d, "binds")))} :
           p \in BuiltPairs}

====
